---- MODULE Spec2Model ----
(***************************************************************************)
(* SHA3_256_Hash (lib/Crypto/Hash/SHA3_256.py) over the native Keccak      *)
(* sponge it drives through keccak_init / keccak_absorb / keccak_digest /  *)
(* keccak_copy.  The Python wrapper is translated from the source file;    *)
(* the native library and the helpers of Crypto.Util._raw_api are not part *)
(* of the source tree and are written from the design document (1600-bit   *)
(* state, rate 136 bytes, Keccak-f[1600], pad10*1 with suffix 0x06).       *)
(***************************************************************************)
EXTENDS Integers, Sequences, FiniteSets, TLC

VARIABLES heap, objs, msg, last

vars == <<heap, objs, msg, last>>

(***************************************************************************)
(* Bounds of the model.                                                    *)
(***************************************************************************)
\* Length of the fixed long input whose pieces the callers feed to update().
MaxLen == 137
\* Number of hash objects that can be alive in one run.
MaxObjs == 2

(***************************************************************************)
(* Constants of the program.                                               *)
(***************************************************************************)
digest_size == 32
padding_byte == 6
\* Rate of SHA3-256 in bytes (1088 bits); the state has 200 bytes.
Rate == 136
StateBytes == 200
\* The top bit closing pad10*1, XORed into the last byte of the rate.
PadTop == 128

(***************************************************************************)
(* Evaluation aid: Strict(f) is f; comparing f with itself makes TLC        *)
(* enumerate the function once instead of re-evaluating its body at every  *)
(* application.                                                            *)
(***************************************************************************)
Strict(f) == IF f = f THEN f ELSE f

(***************************************************************************)
(* Bitwise operations on bytes.  Xor4 is XOR on 4-bit values, computed bit *)
(* by bit; Xor8 tabulates XOR on bytes from it.                            *)
(***************************************************************************)
Xor4 ==
  Strict([i \in 0..255 |->
    LET a == i \div 16
        b == i % 16
    IN  ((a + b) % 2)
        + 2 * (((a \div 2) + (b \div 2)) % 2)
        + 4 * (((a \div 4) + (b \div 4)) % 2)
        + 8 * (((a \div 8) + (b \div 8)) % 2)])

XorRow(a) ==
  [j \in 1..256 |->
    16 * Xor4[16 * (a \div 16) + ((j - 1) \div 16)]
    + Xor4[16 * (a % 16) + ((j - 1) % 16)]]

\* The rows for a = lo .. hi, one after the other.
RECURSIVE XorRows(_, _)
XorRows(lo, hi) ==
  IF lo = hi
  THEN XorRow(lo)
  ELSE XorRows(lo, (lo + hi) \div 2) \o XorRows(((lo + hi) \div 2) + 1, hi)

Xor8 == XorRows(0, 255)

Xor(a, b) == Xor8[256 * a + b + 1]

\* a + b = (a XOR b) + 2 * (a AND b)
And(a, b) == (a + b - Xor(a, b)) \div 2

Not(a) == 255 - a

(***************************************************************************)
(* Keccak-f[1600] on a state of 200 bytes.  Lane (x, y) is the 64-bit      *)
(* little-endian word in bytes 8 * (x + 5 * y) .. 8 * (x + 5 * y) + 7.      *)
(***************************************************************************)
\* Round constants of iota, as the 8 little-endian bytes of each constant.
RC ==
  << <<1,0,0,0,0,0,0,0>>,       <<130,128,0,0,0,0,0,0>>,
     <<138,128,0,0,0,0,0,128>>, <<0,128,0,128,0,0,0,128>>,
     <<139,128,0,0,0,0,0,0>>,   <<1,0,0,128,0,0,0,0>>,
     <<129,128,0,128,0,0,0,128>>, <<9,128,0,0,0,0,0,128>>,
     <<138,0,0,0,0,0,0,0>>,     <<136,0,0,0,0,0,0,0>>,
     <<9,128,0,128,0,0,0,0>>,   <<10,0,0,128,0,0,0,0>>,
     <<139,128,0,128,0,0,0,0>>, <<139,0,0,0,0,0,0,128>>,
     <<137,128,0,0,0,0,0,128>>, <<3,128,0,0,0,0,0,128>>,
     <<2,128,0,0,0,0,0,128>>,   <<128,0,0,0,0,0,0,128>>,
     <<10,128,0,0,0,0,0,0>>,    <<10,0,0,128,0,0,0,128>>,
     <<129,128,0,128,0,0,0,128>>, <<128,128,0,0,0,0,0,128>>,
     <<1,0,0,128,0,0,0,0>>,     <<8,128,0,128,0,0,0,128>> >>

NumRounds == 24

\* Rotation offsets of rho, indexed by lane number x + 5 * y (plus one).
RHO ==
  <<  0,  1, 62, 28, 27,
     36, 44,  6, 55, 20,
      3, 10, 43, 25, 39,
     41, 45, 15, 21,  8,
     18,  2, 61, 56, 14 >>

Pow2 == <<1, 2, 4, 8, 16, 32, 64, 128, 256>>

\* Byte j of lane l of A rotated left by r bits.
RotByte(A, l, j, r) ==
  LET q == r \div 8
      sh == r % 8
  IN  ((A[8 * l + ((j + 8 - q) % 8)] * Pow2[sh + 1]) % 256)
      + (A[8 * l + ((j + 15 - q) % 8)] \div Pow2[9 - sh])

\* pi moves lane (x, y) to (y, 2x + 3y): the lane that lands on lane
\* l = X + 5 * Y comes from x = X + 3Y mod 5, y = X.
PiSource == Strict([l \in 0..24 |-> (((l % 5) + 3 * (l \div 5)) % 5) + 5 * (l % 5)])

\* For each byte of the state after rho and pi: the two source bytes whose
\* bits it is made of, and the multiplier and divisor that shift them.
RhoPiTable ==
  Strict([i \in 0..199 |->
    LET src == PiSource[i \div 8]
        q == RHO[src + 1] \div 8
        sh == RHO[src + 1] % 8
    IN  << 8 * src + (((i % 8) + 8 - q) % 8),
           8 * src + (((i % 8) + 15 - q) % 8),
           Pow2[sh + 1],
           Pow2[9 - sh] >>])

\* For each byte of lane (x, y): the same byte of lanes (x+1, y) and (x+2, y).
ChiTable ==
  Strict([i \in 0..199 |->
    LET x == (i \div 8) % 5
        y == (i \div 8) \div 5
    IN  << 8 * (((x + 1) % 5) + 5 * y) + (i % 8),
           8 * (((x + 2) % 5) + 5 * y) + (i % 8) >>])

\* theta: the parity of each column ...
ThetaC(A) ==
  Strict([i \in 0..39 |->
    Xor(Xor(Xor(Xor(A[i], A[i + 40]), A[i + 80]), A[i + 120]), A[i + 160])])

\* ... D[x] = C[x-1] XOR rot(C[x+1], 1) ...
ThetaD(C) ==
  Strict([i \in 0..39 |->
    Xor(C[8 * (((i \div 8) + 4) % 5) + (i % 8)],
        RotByte(C, ((i \div 8) + 1) % 5, i % 8, 1))])

\* ... XORed into every lane of the column.
Theta(A) ==
  LET D == ThetaD(ThetaC(A))
  IN  Strict([i \in 0..199 |-> Xor(A[i], D[i % 40])])

RhoPi(E) ==
  Strict([i \in 0..199 |->
    ((E[RhoPiTable[i][1]] * RhoPiTable[i][3]) % 256)
    + (E[RhoPiTable[i][2]] \div RhoPiTable[i][4])])

Chi(B) ==
  Strict([i \in 0..199 |->
    Xor(B[i], And(Not(B[ChiTable[i][1]]), B[ChiTable[i][2]]))])

Iota(A, r) ==
  Strict([i \in 0..199 |-> IF i < 8 THEN Xor(A[i], RC[r][i + 1]) ELSE A[i]])

Round(A, r) == Iota(Chi(RhoPi(Theta(A))), r)

\* Rounds r .. 24 applied to A; RoundsFrom has round r - 1 worked out before
\* the next one starts.
RECURSIVE Rounds(_, _)
RECURSIVE RoundsFrom(_, _)
Rounds(A, r) == IF r > NumRounds THEN A ELSE RoundsFrom(Round(A, r), r + 1)
RoundsFrom(R, r) == IF R = R THEN Rounds(R, r) ELSE R

KeccakF(A) == Rounds(A, 1)

(***************************************************************************)
(* The native sponge: Crypto.Hash._keccak, as declared at the top of the   *)
(* source file.  A keccak state holds the 200 state bytes, the absorb      *)
(* cursor, and the padding byte and digest size given to keccak_init.      *)
(* heap maps every allocated pointer to the state it points to.            *)
(***************************************************************************)
NULL == 0
ERR_NULL == 1
ERR_MEMORY == 2

ZeroState == [i \in 0..(StateBytes - 1) |-> 0]

\* The address the allocator hands out next.
FreshPtr(h) == CHOOSE p \in 1..(Cardinality(DOMAIN h) + 1) : p \notin DOMAIN h

\* int keccak_init(void **state, size_t digest_size, uint8_t padding_byte):
\* allocates a zeroed state at p, or fails when memory is exhausted (oom).
keccak_init(h, p, dsize, padding, oom) ==
  IF oom
  THEN [rc |-> ERR_MEMORY, heap |-> h]
  ELSE [rc |-> 0,
        heap |-> [q \in DOMAIN h \cup {p} |->
                   IF q = p
                   THEN [state |-> ZeroState, cursor |-> 0,
                         padding |-> padding, digest_size |-> dsize]
                   ELSE h[q]]]

\* int keccak_destroy(void *state)
keccak_destroy(h, p) == [q \in DOMAIN h \ {p} |-> h[q]]

\* The absorb loop with the test for a full block off by one: the block is
\* permuted only once the cursor has gone past the rate.
AbsorbByteLate(st, b) ==
  LET x == [st.state EXCEPT ![st.cursor] = Xor(@, b)]
      c == st.cursor + 1
  IN  IF c > Rate
      THEN [st EXCEPT !.state = KeccakF(x), !.cursor = 0]
      ELSE [st EXCEPT !.state = x, !.cursor = c]

\* One byte of the absorb loop: XOR it in at the cursor, advance the cursor,
\* and permute and rewind when the block is full.
AbsorbByte(st, b) ==
  LET x == [st.state EXCEPT ![st.cursor] = Xor(@, b)]
      c == st.cursor + 1
  IN  IF c = Rate
      THEN [st EXCEPT !.state = KeccakF(x), !.cursor = 0]
      ELSE [st EXCEPT !.state = x, !.cursor = c]

\* The absorb loop over buf[lo..hi], byte after byte from left to right.  The
\* range is halved so that the evaluation does not nest once per byte, and
\* AbsorbFrom has the left half worked out before the right half starts.
RECURSIVE AbsorbBytes(_, _, _, _)
RECURSIVE AbsorbFrom(_, _, _, _)
AbsorbBytes(st, buf, lo, hi) ==
  IF lo > hi
  THEN st
  ELSE IF lo = hi
       THEN AbsorbByte(st, buf[lo])
       ELSE AbsorbFrom(AbsorbBytes(st, buf, lo, (lo + hi) \div 2),
                       buf, ((lo + hi) \div 2) + 1, hi)
AbsorbFrom(left, buf, lo, hi) ==
  IF left.cursor >= 0 THEN AbsorbBytes(left, buf, lo, hi) ELSE left

\* int keccak_absorb(void *state, const uint8_t *buf, size_t len)
keccak_absorb(h, p, buf, len) ==
  IF p = NULL \/ p \notin DOMAIN h
  THEN [rc |-> ERR_NULL, heap |-> h]
  ELSE [rc |-> 0, heap |-> [h EXCEPT ![p] = AbsorbBytes(@, buf, 1, len)]]

\* pad10*1 with the domain-separation suffix, on a copy of the state.
Pad(st) ==
  LET s1 == [st.state EXCEPT ![st.cursor] = Xor(@, st.padding)]
  IN  [s1 EXCEPT ![Rate - 1] = Xor(@, PadTop)]

\* The first n bytes of a state.
FirstBytes(A, n) == [i \in 1..n |-> A[i - 1]]

\* The digest of a state: pad a copy, permute it once, read the first bytes.
Squeeze(st) == FirstBytes(KeccakF(Pad(st)), st.digest_size)

\* memcpy of d to the start of the buffer bfr.
WriteBuffer(bfr, d) == [i \in 1..Len(bfr) |-> IF i <= Len(d) THEN d[i] ELSE bfr[i]]

\* int keccak_digest(const void *state, uint8_t *digest): writes the digest
\* into the caller's buffer and leaves the state alone.
keccak_digest(h, p, bfr) ==
  IF p = NULL \/ p \notin DOMAIN h
  THEN [rc |-> ERR_NULL, digest |-> bfr]
  ELSE [rc |-> 0, digest |-> WriteBuffer(bfr, Squeeze(h[p]))]

\* int keccak_copy(const void *src, void *dst)
keccak_copy(h, src, dst) ==
  IF src = NULL \/ dst = NULL \/ src \notin DOMAIN h \/ dst \notin DOMAIN h
  THEN [rc |-> ERR_NULL, heap |-> h]
  ELSE [rc |-> 0, heap |-> [h EXCEPT ![dst] = h[src]]]

(***************************************************************************)
(* Python values passed as data, and the helpers of Crypto.Util._raw_api.  *)
(***************************************************************************)
PyNone == [t |-> "NoneType", v |-> <<>>]
PyBytes(s) == [t |-> "bytes", v |-> s]
PyInt(k) == [t |-> "int", v |-> <<k>>]

\* Python's truth value of a data argument.
Truthy(data) ==
  CASE data.t = "NoneType" -> FALSE
    [] data.t = "bytes" -> Len(data.v) > 0
    [] data.t = "int" -> data.v[1] # 0

\* expect_byte_string(data): the exception it raises ("" when none).
expect_byte_string(data) == IF data.t = "bytes" THEN "" ELSE "TypeError"

\* create_string_buffer(n): n zero bytes.
create_string_buffer(n) == [i \in 1..n |-> 0]

\* get_raw_buffer(bfr): the bytes of the buffer.
get_raw_buffer(bfr) == bfr

HexDigits == <<"0", "1", "2", "3", "4", "5", "6", "7",
               "8", "9", "a", "b", "c", "d", "e", "f">>

\* "%x" % bord(x): no leading zero.
FormatUnpadded(x) ==
  IF x < 16
  THEN <<HexDigits[x + 1]>>
  ELSE <<HexDigits[(x \div 16) + 1], HexDigits[(x % 16) + 1]>>

\* "%02x" % bord(x)
Format02x(x) == <<HexDigits[(x \div 16) + 1], HexDigits[(x % 16) + 1]>>

\* "".join(parts)
RECURSIVE Join(_, _, _)
Join(parts, lo, hi) ==
  IF lo > hi
  THEN <<>>
  ELSE IF lo = hi
       THEN parts[lo]
       ELSE Join(parts, lo, (lo + hi) \div 2) \o Join(parts, ((lo + hi) \div 2) + 1, hi)

(***************************************************************************)
(* class SHA3_256_Hash.  A method is an operator from the heap and its      *)
(* arguments to the heap it leaves, the exception it raises ("" when it     *)
(* returns) and the value it returns.                                      *)
(***************************************************************************)
NoObject == [state_ptr |-> NULL]

\* update(), once keccak_absorb has returned result
update_checked(result) ==
  IF result.rc # 0
  THEN [heap |-> result.heap, exc |-> "ValueError"]
  ELSE [heap |-> result.heap, exc |-> ""]

\* update() that never passes a length below 1: no data is absorbed as one zero byte.
update_at_least_one(h, self, data) ==
  IF expect_byte_string(data) # ""
  THEN [heap |-> h, exc |-> expect_byte_string(data)]
  ELSE IF Len(data.v) = 0
       THEN update_checked(keccak_absorb(h, self.state_ptr, <<0>>, 1))
       ELSE update_checked(keccak_absorb(h, self.state_ptr, data.v, Len(data.v)))

\* update() that hands data to the native code without looking at its type.
update_unchecked(h, self, data) ==
  update_checked(keccak_absorb(h, self.state_ptr, data.v, Len(data.v)))

\* update() that starts the sponge over at every call.
update_restarting(h, self, data) ==
  IF expect_byte_string(data) # ""
  THEN [heap |-> h, exc |-> expect_byte_string(data)]
  ELSE update_checked(
         keccak_absorb(keccak_init(h, self.state_ptr, digest_size, padding_byte, FALSE).heap,
                       self.state_ptr, data.v, Len(data.v)))

\* def update(self, data)
update(h, self, data) ==
  IF expect_byte_string(data) # ""
  THEN [heap |-> h, exc |-> expect_byte_string(data)]
  ELSE update_checked(keccak_absorb(h, self.state_ptr, data.v, Len(data.v)))

\* __init__(), once self.update(data) has finished as u: an exception leaves
\* the constructor, and the SmartPointer frees the state with the object.
init_updated(self, u) ==
  IF u.exc # ""
  THEN [heap |-> keccak_destroy(u.heap, self.state_ptr), exc |-> u.exc,
        ret |-> NoObject]
  ELSE [heap |-> u.heap, exc |-> "", ret |-> self]

\* __init__(), once keccak_init has returned result
init_checked(h, self, data, result) ==
  IF result.rc # 0
  THEN [heap |-> h, exc |-> "ValueError", ret |-> NoObject]
  ELSE IF Truthy(data)
       THEN init_updated(self, update(result.heap, self, data))
       ELSE [heap |-> result.heap, exc |-> "", ret |-> self]

\* __init__() with the padding byte of the SHAKE functions.
init_shake_padding(h, data, oom) ==
  init_checked(h, [state_ptr |-> FreshPtr(h)], data,
               keccak_init(h, FreshPtr(h), digest_size, 31, oom))

\* __init__() that asks for the padding of Keccak before it became SHA-3.
init_legacy_padding(h, data, oom) ==
  init_checked(h, [state_ptr |-> FreshPtr(h)], data,
               keccak_init(h, FreshPtr(h), digest_size, 1, oom))

\* def __init__(self, data=None)
init(h, data, oom) ==
  init_checked(h, [state_ptr |-> FreshPtr(h)], data,
               keccak_init(h, FreshPtr(h), digest_size, padding_byte, oom))

\* digest() that returns the buffer without looking at the result code.
digest_unchecked_result(h, result) ==
  [heap |-> h, exc |-> "", ret |-> get_raw_buffer(result.digest)]

\* digest(), once keccak_digest has returned result
digest_checked(h, result) ==
  IF result.rc # 0
  THEN [heap |-> h, exc |-> "ValueError", ret |-> <<>>]
  ELSE [heap |-> h, exc |-> "", ret |-> get_raw_buffer(result.digest)]

\* digest() that pads the live state instead of a copy of it.
digest_padding_in_place(h, self) ==
  [digest_checked(h, keccak_digest(h, self.state_ptr, create_string_buffer(digest_size)))
     EXCEPT !.heap = [h EXCEPT ![self.state_ptr].state = Pad(h[self.state_ptr])]]

\* digest() with the buffer of the next shorter SHA-3 variant.
digest_short_buffer(h, self) ==
  digest_checked(h, keccak_digest(h, self.state_ptr, create_string_buffer(28)))

\* digest() that absorbs the padding byte into the live state on its way.
digest_absorbing_padding(h, self) ==
  [digest_checked(h, keccak_digest(h, self.state_ptr, create_string_buffer(digest_size)))
     EXCEPT !.heap = keccak_absorb(h, self.state_ptr, <<padding_byte>>, 1).heap]

\* digest() that finalizes the live state: pads it and permutes it in place.
digest_permuting_in_place(h, self) ==
  [digest_checked(h, keccak_digest(h, self.state_ptr, create_string_buffer(digest_size)))
     EXCEPT !.heap = [h EXCEPT ![self.state_ptr].state = KeccakF(Pad(h[self.state_ptr]))]]

\* digest() that releases the native state once the digest is out.
digest_finalizing(h, self) ==
  [digest_checked(h, keccak_digest(h, self.state_ptr, create_string_buffer(digest_size)))
     EXCEPT !.heap = keccak_destroy(h, self.state_ptr)]

\* def digest(self)
digest(h, self) ==
  digest_checked(h, keccak_digest(h, self.state_ptr, create_string_buffer(digest_size)))

\* hexdigest(), once self.digest() has finished as d
hexdigest_of(d) ==
  IF d.exc # ""
  THEN d
  ELSE [d EXCEPT !.ret = Join([i \in 1..Len(d.ret) |-> Format02x(d.ret[i])], 1, Len(d.ret))]

\* def hexdigest(self)
hexdigest(h, self) == hexdigest_of(digest(h, self))

\* copy(), once keccak_copy has returned result
copy_checked(clone, result) ==
  IF result.rc # 0
  THEN [heap |-> keccak_destroy(result.heap, clone.state_ptr),
        exc |-> "ValueError", ret |-> NoObject]
  ELSE [heap |-> result.heap, exc |-> "", ret |-> clone]

\* copy() with the arguments of keccak_copy swapped: the new state is copied
\* over the state of self.
copy_swapped(self, made) ==
  IF made.exc # ""
  THEN made
  ELSE copy_checked(made.ret, keccak_copy(made.heap, made.ret.state_ptr, self.state_ptr))

\* copy() that returns the new object without copying the state into it.
copy_without_state(self, made) == made

\* copy() that hands out a second reference to the state of self.
copy_aliasing(self, made) ==
  IF made.exc # ""
  THEN made
  ELSE [heap |-> keccak_destroy(made.heap, made.ret.state_ptr), exc |-> "", ret |-> self]

\* copy(), once type(self)() has finished as made
copy_into(self, made) ==
  IF made.exc # ""
  THEN made
  ELSE copy_checked(made.ret, keccak_copy(made.heap, self.state_ptr, made.ret.state_ptr))

\* def copy(self)
copy(h, self, oom) == copy_into(self, init(h, PyNone, oom))

\* new() that starts from a copy of self: the copy c, then update(data) on it.
copy_then_update(c, data) ==
  IF c.exc # "" \/ ~Truthy(data)
  THEN c
  ELSE init_updated(c.ret, update(c.heap, c.ret, data))

method_new_inheriting(h, self, data, oom) == copy_then_update(copy(h, self, oom), data)

\* def new(self, data=None)
method_new(h, self, data, oom) == init(h, data, oom)

\* def new(data=None), the function of the module
new(h, data, oom) == init(h, data, oom)

(***************************************************************************)
(* The callers.  The bytes they hash are pieces of one fixed long input,   *)
(* Text, cut at the split points Marks: the empty prefix, one byte short   *)
(* of a block, exactly one block, and past the block.  msg[o] records the  *)
(* bytes that the successful update() calls on object o (and on the object *)
(* it was copied from) were given; last records the latest call.           *)
(***************************************************************************)
Text == [i \in 1..MaxLen |-> (37 * i + 11) % 256]

Marks == {0, Rate - 1, Rate, MaxLen}

\* The bytes of Text after the first n, up to the first m.
Chunk(n, m) == SubSeq(Text, n + 1, m)

\* What a caller may pass as data to new().
NewData ==
  {PyNone, PyBytes(<<>>), PyBytes(Chunk(0, Rate - 1)), PyInt(0), PyInt(7)}

\* The constructor calls: the data passed, and whether memory runs out.
NewCalls == {<<data, FALSE>> : data \in NewData} \cup {<<PyNone, TRUE>>}

\* What a caller may pass to update() on an object that has absorbed n bytes.
UpdateData(n) ==
  {PyBytes(Chunk(n, m)) : m \in {k \in Marks : k >= n}} \cup {PyInt(7)}

Live == DOMAIN objs

NextId == Cardinality(Live) + 1

Extend(f, k, val) == [j \in DOMAIN f \cup {k} |-> IF j = k THEN val ELSE f[j]]

NoCall ==
  [op |-> "none", self |-> 0, made |-> 0, arg |-> PyNone, exc |-> "", ret |-> <<>>,
   after |-> "none"]

\* What an update(), digest() or hexdigest() of object o comes right after:
\* "digest" when the call before it was a digest() of o, "none" otherwise.
After(o) == IF last.op = "digest" /\ last.self = o THEN "digest" ELSE "none"

Init ==
  /\ heap = <<>>
  /\ objs = <<>>
  /\ msg = <<>>
  /\ last = NoCall

\* A constructor call returned r: the new object, if any, joins the live ones.
Construct(op, self, data, r, absorbed) ==
  /\ heap' = r.heap
  /\ objs' = IF r.exc = "" THEN Extend(objs, NextId, r.ret) ELSE objs
  /\ msg' = IF r.exc = "" THEN Extend(msg, NextId, absorbed) ELSE msg
  /\ last' = [op |-> op, self |-> self, made |-> IF r.exc = "" THEN NextId ELSE 0,
              arg |-> data, exc |-> r.exc, ret |-> <<>>, after |-> "none"]

\* h = SHA3_256.new(data)
New(data, oom) ==
  /\ Cardinality(Live) < MaxObjs
  /\ Construct("new", 0, data, new(heap, data, oom),
               IF Truthy(data) THEN data.v ELSE <<>>)

\* h2 = h.new(data)
MethodNew(o, data, oom) ==
  /\ Cardinality(Live) < MaxObjs
  /\ Construct("method_new", o, data, method_new(heap, objs[o], data, oom),
               IF Truthy(data) THEN data.v ELSE <<>>)

\* h2 = h.copy()
Copy(o, oom) ==
  /\ Cardinality(Live) < MaxObjs
  /\ Construct("copy", o, PyNone, copy(heap, objs[o], oom), msg[o])

\* update(data) on object o finished as r.
Updated(o, data, r) ==
  /\ heap' = r.heap
  /\ objs' = objs
  /\ msg' = IF r.exc = "" THEN [msg EXCEPT ![o] = @ \o data.v] ELSE msg
  /\ last' = [op |-> "update", self |-> o, made |-> 0, arg |-> data,
              exc |-> r.exc, ret |-> <<>>, after |-> After(o)]

\* h.update(data)
Update(o, data) == Updated(o, data, update(heap, objs[o], data))

\* A call that returns a value and may not touch the objects: r is what it did.
Return(op, o, r) ==
  /\ heap' = r.heap
  /\ UNCHANGED <<objs, msg>>
  /\ last' = [op |-> op, self |-> o, made |-> 0, arg |-> PyNone,
              exc |-> r.exc, ret |-> r.ret, after |-> After(o)]

\* h.digest(), where self.digest() finishes as d
Digest(o, d) == Return("digest", o, d)

\* h.hexdigest(), where the self.digest() it calls finishes as d
HexDigest(o, d) == Return("hexdigest", o, hexdigest_of(d))

\* Either call on object o; both start with the same self.digest().
DigestOrHexDigest(o, d) == Digest(o, d) \/ HexDigest(o, d)

Next ==
  \/ \E c \in NewCalls : New(c[1], c[2])
  \/ \E o \in Live, c \in NewCalls : MethodNew(o, c[1], c[2])
  \/ \E o \in Live, oom \in BOOLEAN : Copy(o, oom)
  \/ \E o \in Live : \E data \in UpdateData(Len(msg[o])) : Update(o, data)
  \/ \E o \in Live : DigestOrHexDigest(o, digest(heap, objs[o]))

Spec == Init /\ [][Next]_vars

(***************************************************************************)
(* What the properties below speak of.                                     *)
(***************************************************************************)
\* The native state behind object o.
StateOf(o) == heap[objs[o].state_ptr]

\* The native state of the object made, after one update(s) on it.
UpdatedOnce(made, s) ==
  update(made.heap, made.ret, PyBytes(s)).heap[made.ret.state_ptr]

\* The native state of a new object that was given all of s in one update().
OneCall(s) == UpdatedOnce(new(<<>>, PyNone, FALSE), s)

\* The latest call was an update() with bytes that returned.
Absorbed == last.op = "update" /\ last.arg.t = "bytes" /\ last.exc = ""

(***************************************************************************)
(* C1: data fed in several update() calls leaves the same state as the     *)
(* concatenation fed in one call, also when the pieces meet or straddle    *)
(* the 136-byte block boundary.                                            *)
(***************************************************************************)
C1_IncrementalEquivalence ==
  Absorbed => StateOf(last.self) = OneCall(msg[last.self])

\* An update() of 2 bytes on top of 135 absorbed ones: the block fills inside it.
C1_Witness ==
  /\ Absorbed
  /\ Len(msg[last.self]) = Rate + 1
  /\ Len(last.arg.v) = 2

(***************************************************************************)
(* C2: digest() does not change the hash state or its cursor, and an       *)
(* update() after it continues from the position the object was at.        *)
(***************************************************************************)
C2_DigestKeepsState ==
  /\ [][last'.op = "digest" => (heap' = heap /\ objs' = objs)]_vars
  /\ []((Absorbed /\ last.after = "digest") =>
          /\ StateOf(last.self) = OneCall(msg[last.self])
          /\ StateOf(last.self).cursor = Len(msg[last.self]) % Rate)

\* One byte absorbed right after a digest() taken at 135 bytes.
C2_Witness ==
  /\ Absorbed
  /\ last.after = "digest"
  /\ Len(msg[last.self]) = Rate
  /\ Len(last.arg.v) = 1


(***************************************************************************)
(* C3: copy() taken mid-stream duplicates the hash state: the copy has the *)
(* state and cursor of the original in a state of its own, the two give    *)
(* the same digest, and objects fed the same bytes stay in equal states.   *)
(***************************************************************************)
C3_CopyDuplicatesState ==
  /\ (last.op = "copy" /\ last.exc = "") =>
       /\ last.made \in Live
       /\ objs[last.made].state_ptr # objs[last.self].state_ptr
       /\ StateOf(last.made) = StateOf(last.self)
       /\ digest(heap, objs[last.made]).ret = digest(heap, objs[last.self]).ret
  /\ \A o1, o2 \in Live : msg[o1] = msg[o2] => StateOf(o1) = StateOf(o2)

\* A copy of an object that is one byte into its second block.
C3_Witness ==
  /\ last.op = "copy"
  /\ last.exc = ""
  /\ Len(msg[last.self]) = Rate + 1
  /\ StateOf(last.made).cursor = 1

(***************************************************************************)
(* C4: the instances are independent: each has a native state of its own,  *)
(* and update(), digest() or hexdigest() on one leaves the state of every  *)
(* other instance as it was.                                               *)
(***************************************************************************)
C4_InstancesIndependent ==
  /\ [](\A o1, o2 \in Live : o1 # o2 => objs[o1].state_ptr # objs[o2].state_ptr)
  /\ [][last'.op \in {"update", "digest", "hexdigest"} =>
          \A o \in Live \ {last'.self} :
            heap'[objs'[o].state_ptr] = heap[objs[o].state_ptr]]_vars

\* Two objects with different bytes absorbed, the latest absorbed into one of them.
C4_Witness ==
  /\ Absorbed
  /\ Len(last.arg.v) > 0
  /\ \E o \in Live \ {last.self} : Len(msg[o]) > 0 /\ msg[o] # msg[last.self]

(***************************************************************************)
(* C5: there is no finalize-once rule: whatever calls came before, an      *)
(* update() with bytes is accepted and absorbs them, and digest() and      *)
(* hexdigest() return a digest.                                            *)
(***************************************************************************)
\* The latest call was an update() that was given bytes.
Accepted == last.op = "update" /\ last.arg.t = "bytes"

C5_NoFinalizeOnce ==
  /\ []((Accepted \/ last.op \in {"digest", "hexdigest"}) => last.exc = "")
  /\ [][(last'.op = "update" /\ last'.arg.t = "bytes") =>
          msg'[last'.self] = msg[last'.self] \o last'.arg.v]_vars

\* The last byte of the input absorbed right after a digest() of the object.
C5_Witness ==
  /\ Absorbed
  /\ last.after = "digest"
  /\ Len(msg[last.self]) = MaxLen
  /\ Len(last.arg.v) = MaxLen - Rate

(***************************************************************************)
(* C6: whatever was absorbed, zero bytes included, and wherever the cursor *)
(* stands, a digest() that returns gives exactly 32 bytes.                 *)
(***************************************************************************)
C6_DigestIs32Bytes ==
  (last.op = "digest" /\ last.exc = "") =>
    /\ Len(last.ret) = 32
    /\ \A i \in 1..Len(last.ret) : last.ret[i] \in 0..255

\* A digest() of an object that absorbed exactly one block.
C6_Witness ==
  /\ last.op = "digest"
  /\ last.exc = ""
  /\ Len(msg[last.self]) = Rate
  /\ StateOf(last.self).cursor = 0

(***************************************************************************)
(* C7: update() with a value that is no byte string raises TypeError       *)
(* before the native absorb runs: the native states, the cursor among      *)
(* them, the objects and the bytes they absorbed are as before the call,   *)
(* so that a digest() after it is the digest() before it.                  *)
(***************************************************************************)
C7_NonBytesRejected ==
  [][(last'.op = "update" /\ last'.arg.t # "bytes") =>
       /\ last'.exc = "TypeError"
       /\ heap' = heap
       /\ objs' = objs
       /\ msg' = msg]_vars

\* update(7) refused by an object that is one byte into its second block.
C7_Witness ==
  /\ last.op = "update"
  /\ last.arg = PyInt(7)
  /\ last.exc = "TypeError"
  /\ Len(msg[last.self]) = Rate + 1

(***************************************************************************)
(* C8: two digest() calls in a row on the same object, with no update()    *)
(* between them, return the same 32 bytes.                                 *)
(***************************************************************************)
C8_DigestIdempotent ==
  [][(last.op = "digest" /\ last'.op = "digest" /\ last'.self = last.self) =>
       /\ last'.ret = last.ret
       /\ Len(last'.ret) = 32]_vars

\* The second of two digest() calls in a row, one byte short of a block.
C8_Witness ==
  /\ last.op = "digest"
  /\ last.after = "digest"
  /\ last.exc = ""
  /\ Len(msg[last.self]) = Rate - 1

(***************************************************************************)
(* C9: new(data), for every data given other than None, ends as new()      *)
(* followed by update(data) ends: with the same exception or none, and,    *)
(* when none, with the object in the same state.                           *)
(***************************************************************************)
\* How update(data) on the object made ends: the exception, and the state.
ThenUpdate(made, u) == [exc |-> u.exc, state |-> u.heap[made.ret.state_ptr]]

NewThenUpdate(made, data) == ThenUpdate(made, update(made.heap, made.ret, data))

C9_NewDataIsEarlyUpdate ==
  (last.op = "new" /\ last.arg # PyNone) =>
    /\ last.exc = NewThenUpdate(new(<<>>, PyNone, FALSE), last.arg).exc
    /\ last.exc = "" =>
         StateOf(last.made) = NewThenUpdate(new(<<>>, PyNone, FALSE), last.arg).state

(***************************************************************************)
(* C10: digest() of an object into which no byte was ever absorbed returns *)
(* the SHA3-256 value of the empty message: the first 32 bytes of one      *)
(* Keccak-f[1600] permutation of the zero state with 0x06 XORed into byte  *)
(* 0 and 0x80 XORed into byte 135, which is the value NIST publishes.      *)
(***************************************************************************)
\* a7ffc6f8bf1ed76651c14756a061d662f580ff4de43b49fa82d80a4b80f8434a
EmptyMessageDigest ==
  <<167, 255, 198, 248, 191, 30, 215, 102, 81, 193, 71, 86, 160, 97, 214, 98,
    245, 128, 255, 77, 228, 59, 73, 250, 130, 216, 10, 75, 128, 248, 67, 74>>

PaddedEmptyBlock == [ZeroState EXCEPT ![0] = Xor(@, 6), ![135] = Xor(@, 128)]

C10_EmptyMessage ==
  (last.op = "digest" /\ msg[last.self] = <<>>) =>
    /\ last.exc = ""
    /\ last.ret = FirstBytes(KeccakF(PaddedEmptyBlock), 32)
    /\ last.ret = EmptyMessageDigest

\* A digest() of an object made with no data and never updated with any.
C10_Witness ==
  /\ last.op = "digest"
  /\ last.exc = ""
  /\ msg[last.self] = <<>>
  /\ StateOf(last.self).state = ZeroState

(***************************************************************************)
(* C11: hexdigest() returns exactly 64 characters, each a lowercase        *)
(* hexadecimal digit; the characters 2i and 2i+1 (counted from 0) encode   *)
(* byte i of what digest() returns in the same state, high nibble first;   *)
(* and the call does not change the state of the object.                   *)
(***************************************************************************)
\* The value of a lowercase hexadecimal digit.
NibbleOf(c) ==
  CASE c = "0" -> 0  [] c = "1" -> 1  [] c = "2" -> 2  [] c = "3" -> 3
    [] c = "4" -> 4  [] c = "5" -> 5  [] c = "6" -> 6  [] c = "7" -> 7
    [] c = "8" -> 8  [] c = "9" -> 9  [] c = "a" -> 10 [] c = "b" -> 11
    [] c = "c" -> 12 [] c = "d" -> 13 [] c = "e" -> 14 [] c = "f" -> 15

LowerHex ==
  {"0", "1", "2", "3", "4", "5", "6", "7", "8", "9", "a", "b", "c", "d", "e", "f"}

\* The text is the bytes d in lowercase hexadecimal, two digits a byte.
EncodesBytes(text, d) ==
  /\ Len(text) = 2 * Len(d)
  /\ \A i \in 1..Len(d) :
       /\ text[2 * i - 1] \in LowerHex
       /\ text[2 * i] \in LowerHex
       /\ 16 * NibbleOf(text[2 * i - 1]) + NibbleOf(text[2 * i]) = d[i]

C11_HexDigest ==
  /\ []((last.op = "hexdigest" /\ last.exc = "") =>
          /\ Len(last.ret) = 64
          /\ \A i \in 1..Len(last.ret) : last.ret[i] \in LowerHex
          /\ EncodesBytes(last.ret, digest(heap, objs[last.self]).ret))
  /\ [][last'.op = "hexdigest" => (heap' = heap /\ objs' = objs /\ msg' = msg)]_vars

\* A hexdigest() with a byte below 16 in it, of an object inside its second block.
C11_Witness ==
  /\ last.op = "hexdigest"
  /\ last.exc = ""
  /\ Len(msg[last.self]) = Rate + 1
  /\ \E i \in 1..32 : last.ret[2 * i - 1] = "0"

(***************************************************************************)
(* C12: absorbing zero bytes is a no-op: update(b'') returns and leaves    *)
(* the state array and the cursor of the object, and so every native       *)
(* state, as they were; no permutation has touched the state.              *)
(***************************************************************************)
C12_EmptyUpdateIsNoOp ==
  [][(last'.op = "update" /\ last'.arg = PyBytes(<<>>)) =>
       /\ last'.exc = ""
       /\ heap' = heap
       /\ objs' = objs
       /\ msg' = msg]_vars

\* update(b'') on an object whose cursor is on the last byte of the block.
C12_Witness ==
  /\ last.op = "update"
  /\ last.arg = PyBytes(<<>>)
  /\ last.exc = ""
  /\ Len(msg[last.self]) = Rate - 1
  /\ StateOf(last.self).cursor = Rate - 1

(***************************************************************************)
(* The sponge written block by block, for C13 to C15.                      *)
(***************************************************************************)
\* The array A with the bytes buf XORed in from position at on.
XorInto(A, buf, at) ==
  [i \in DOMAIN A |->
     IF i >= at /\ i < at + Len(buf) THEN Xor(A[i], buf[i - at + 1]) ELSE A[i]]

\* The array and cursor after the bytes d went into array A at cursor c: the
\* bytes that fill a block to its 136th byte are XORed in, the whole array is
\* permuted, and the bytes after them start at position 0 of the result.
RECURSIVE BlockByBlock(_, _, _)
BlockByBlock(A, c, d) ==
  IF c + Len(d) < 136
  THEN [state |-> XorInto(A, d, c), cursor |-> c + Len(d)]
  ELSE BlockByBlock(KeccakF(XorInto(A, SubSeq(d, 1, 136 - c), c)), 0,
                    SubSeq(d, 136 - c + 1, Len(d)))

\* The native state st has the array and the cursor of r.
ArrayAndCursor(st, r) == st.state = r.state /\ st.cursor = r.cursor

(***************************************************************************)
(* C13: between the calls, whatever sequence of new, update, digest and    *)
(* copy came before, every cursor is in 0..135; and when a byte absorbed   *)
(* brings the cursor to 136, the whole array is permuted and the cursor    *)
(* is back at 0 before the next byte is absorbed.                          *)
(***************************************************************************)
C13_CursorInvariant ==
  /\ [](\A p \in DOMAIN heap : heap[p].cursor >= 0 /\ heap[p].cursor < 136)
  /\ [][(last'.op = "update" /\ last'.arg.t = "bytes" /\ last'.exc = "") =>
          ArrayAndCursor(heap'[objs[last'.self].state_ptr],
                         BlockByBlock(StateOf(last'.self).state,
                                      StateOf(last'.self).cursor, last'.arg.v))]_vars

\* One update() of exactly a block: its last byte brought the cursor to 136.
C13_Witness ==
  /\ Absorbed
  /\ Len(last.arg.v) = Rate
  /\ Len(msg[last.self]) = Rate
  /\ StateOf(last.self).cursor = 0
  /\ StateOf(last.self).state # ZeroState

(***************************************************************************)
(* C14: block accounting.  After n bytes in all went into an object since  *)
(* new(), in whatever chunks, its cursor is n mod 136 and its array is the *)
(* zero array with the permutation applied once for each of the n div 136  *)
(* full blocks; at a multiple of 136 the cursor is 0 with no block         *)
(* pending.  digest() adds one permutation more, on a padded scratch copy: *)
(* the live state stays as the account says.                               *)
(***************************************************************************)
\* The array A with the padding of SHA-3 at cursor c.
Padded(A, c) ==
  [i \in DOMAIN A |->
     Xor(Xor(A[i], IF i = c THEN 6 ELSE 0), IF i = 135 THEN 128 ELSE 0)]

\* The digest of a sponge r: one permutation of its padded copy, 32 bytes of it.
OnePermutationMore(r) == FirstBytes(KeccakF(Padded(r.state, r.cursor)), 32)

C14_BlockAccounting ==
  /\ \A o \in Live :
       /\ StateOf(o).cursor = Len(msg[o]) % 136
       /\ ArrayAndCursor(StateOf(o), BlockByBlock(ZeroState, 0, msg[o]))
  /\ (last.op = "digest" /\ last.exc = "") =>
       last.ret = OnePermutationMore(BlockByBlock(ZeroState, 0, msg[last.self]))

\* A digest() of an object that absorbed exactly one block, in two chunks or one.
C14_Witness ==
  /\ last.op = "digest"
  /\ last.exc = ""
  /\ Len(msg[last.self]) = 136
  /\ StateOf(last.self).cursor = 0
  /\ StateOf(last.self).state # ZeroState

(***************************************************************************)
(* C15: padding at finalization.  The padding byte of every object is the  *)
(* 0x06 it was constructed with; digest() XORs it into the scratch copy at *)
(* the cursor and XORs 0x80 into byte 135; at cursor 135 the two meet in   *)
(* one byte, 0x86 over what it held; every other byte of the copy is the   *)
(* byte of the live state, and the digest is 32 bytes of one permutation   *)
(* of that copy.                                                           *)
(***************************************************************************)
\* The scratch copy of the native state st, byte by byte.
ScratchCopy(st) ==
  [i \in 0..199 |->
     IF i = st.cursor /\ i = 135 THEN Xor(st.state[i], 134)
     ELSE IF i = st.cursor THEN Xor(st.state[i], 6)
     ELSE IF i = 135 THEN Xor(st.state[i], 128)
     ELSE st.state[i]]

C15_Padding ==
  /\ \A o \in Live :
       /\ StateOf(o).padding = 6
       /\ Pad(StateOf(o)) = ScratchCopy(StateOf(o))
  /\ (last.op = "digest" /\ last.exc = "") =>
       last.ret = FirstBytes(KeccakF(ScratchCopy(StateOf(last.self))), 32)

\* A digest() at cursor 135, where the two padding bytes meet, next to an object
\* past its first block, where they fall on bytes that are not zero.
C15_Witness ==
  /\ last.op = "digest"
  /\ last.exc = ""
  /\ StateOf(last.self).cursor = 135
  /\ Pad(StateOf(last.self))[135] = 134
  /\ \E o \in Live : /\ StateOf(o).cursor = 1
                     /\ StateOf(o).state[135] # 0
                     /\ Pad(StateOf(o))[135] = Xor(StateOf(o).state[135], 128)

(***************************************************************************)
(* The calls with a native library that may fail: each call of a method    *)
(* reaches its native function, which returns the code rc, 0 with its      *)
(* effect or not 0 without; last.rc records the code.  The objects absorb  *)
(* at most FaultMaxLen bytes, one by one.                                  *)
(***************************************************************************)
FaultMaxLen == 2

Codes == {0, ERR_NULL, ERR_MEMORY}

\* keccak_init returning rc
init_result(h, p, rc) ==
  IF rc = 0
  THEN keccak_init(h, p, digest_size, padding_byte, FALSE)
  ELSE [rc |-> rc, heap |-> h]

\* keccak_absorb returning rc
absorb_result(h, self, data, rc) ==
  IF rc = 0
  THEN keccak_absorb(h, self.state_ptr, data.v, Len(data.v))
  ELSE [rc |-> rc, heap |-> h]

\* keccak_digest returning rc
digest_result(h, self, rc) ==
  IF rc = 0
  THEN keccak_digest(h, self.state_ptr, create_string_buffer(digest_size))
  ELSE [rc |-> rc, digest |-> create_string_buffer(digest_size)]

\* keccak_copy returning rc
copy_result(h, self, clone, rc) ==
  IF rc = 0
  THEN keccak_copy(h, self.state_ptr, clone.state_ptr)
  ELSE [rc |-> rc, heap |-> h]

FaultNoCall ==
  [op |-> "none", self |-> 0, made |-> 0, arg |-> PyNone, exc |-> "", ret |-> <<>>,
   after |-> "none", rc |-> 0]

FaultInit ==
  /\ heap = <<>>
  /\ objs = <<>>
  /\ msg = <<>>
  /\ last = FaultNoCall

\* A call finished as r after its native function returned rc.  makes: the call
\* is to return a new object; ret: the value it returns otherwise; absorbed:
\* the bytes absorbed by the object it made or worked on, when it returns.
FaultStep(op, self, data, r, rc, makes, ret, absorbed) ==
  /\ heap' = r.heap
  /\ objs' = IF makes /\ r.exc = "" THEN Extend(objs, NextId, r.ret) ELSE objs
  /\ msg' = IF r.exc # "" THEN msg
            ELSE IF makes THEN Extend(msg, NextId, absorbed)
            ELSE [msg EXCEPT ![self] = absorbed]
  /\ last' = [op |-> op, self |-> self, made |-> IF makes /\ r.exc = "" THEN NextId ELSE 0,
              arg |-> data, exc |-> r.exc, ret |-> IF r.exc = "" THEN ret ELSE <<>>,
              after |-> "none", rc |-> rc]

\* What a caller passes to new() here.
FaultNewData == {PyNone, PyBytes(Chunk(0, 1)), PyInt(7)}

\* h = SHA3_256.new(data), where keccak_init returns rc
FaultyNew(data, rc) ==
  /\ Cardinality(Live) < MaxObjs
  /\ FaultStep("new", 0, data,
               init_checked(heap, [state_ptr |-> FreshPtr(heap)], data,
                            init_result(heap, FreshPtr(heap), rc)),
               rc, TRUE, <<>>, IF Truthy(data) THEN data.v ELSE <<>>)

\* h.update(data) with the next byte of Text, where keccak_absorb returns rc
FaultyUpdate(o, data, rc) ==
  /\ expect_byte_string(data) = ""
  /\ Len(msg[o]) + Len(data.v) <= FaultMaxLen
  /\ FaultStep("update", o, data,
               update_checked(absorb_result(heap, objs[o], data, rc)),
               rc, FALSE, <<>>, msg[o] \o data.v)

\* h.digest() finished as r after keccak_digest returned rc
FaultyDigested(o, rc, r) ==
  FaultStep("digest", o, PyNone, r, rc, FALSE, r.ret, msg[o])

\* h.digest(), where keccak_digest returns rc
FaultyDigest(o, rc) ==
  FaultyDigested(o, rc, digest_checked(heap, digest_result(heap, objs[o], rc)))

\* h.copy(), once type(self)() has finished as made, where keccak_copy returns rc
FaultyCopied(o, rc, made) ==
  FaultStep("copy", o, PyNone,
            copy_checked(made.ret, copy_result(made.heap, objs[o], made.ret, rc)),
            rc, TRUE, <<>>, msg[o])

\* h2 = h.copy(), where keccak_copy returns rc
FaultyCopy(o, rc) ==
  /\ Cardinality(Live) < MaxObjs
  /\ FaultyCopied(o, rc, init(heap, PyNone, FALSE))

FaultNext ==
  \/ \E data \in FaultNewData, rc \in Codes : FaultyNew(data, rc)
  \/ \E o \in Live, rc \in Codes : FaultyUpdate(o, PyBytes(Chunk(Len(msg[o]), Len(msg[o]) + 1)), rc)
  \/ \E o \in Live, rc \in Codes : FaultyDigest(o, rc)
  \/ \E o \in Live, rc \in Codes : FaultyCopy(o, rc)

FaultSpec == FaultInit /\ [][FaultNext]_vars

(***************************************************************************)
(* C16: the result code of every native call is checked.  When             *)
(* keccak_init, keccak_absorb, keccak_digest or keccak_copy returns a code *)
(* that is not zero, the method that called it (__init__, update, digest,  *)
(* copy) raises ValueError and returns no object, digest or clone; when    *)
(* the code is zero no ValueError is raised, and update, digest and copy   *)
(* return.                                                                 *)
(***************************************************************************)
C16_ResultCodesChecked ==
  /\ [](last.op # "none" =>
          /\ last.rc # 0 =>
               /\ last.exc = "ValueError"
               /\ last.made = 0
               /\ last.ret = <<>>
          /\ last.rc = 0 =>
               /\ last.exc # "ValueError"
               /\ last.op \in {"update", "digest", "copy"} => last.exc = ""
               /\ last.op = "digest" => Len(last.ret) = 32
               /\ (last.op \in {"new", "copy"} /\ last.exc = "") => last.made \in Live)
  /\ [][last'.rc # 0 => (objs' = objs /\ msg' = msg /\ DOMAIN heap' = DOMAIN heap)]_vars

\* A digest() of an object with a byte absorbed, refused by keccak_digest.
C16_Witness ==
  /\ last.op = "digest"
  /\ last.rc = ERR_NULL
  /\ last.exc = "ValueError"
  /\ Len(msg[last.self]) = 1

(***************************************************************************)
(* C17: copy() leaves its source unchanged: whether it returns a clone or  *)
(* raises, the array and the cursor of the source, and of every object     *)
(* there was, are after the call what they were before it, and so is the   *)
(* digest of the source.                                                   *)
(***************************************************************************)
C17_CopyLeavesSource ==
  [][last'.op = "copy" =>
       /\ \A o \in Live :
            /\ objs'[o] = objs[o]
            /\ msg'[o] = msg[o]
            /\ heap'[objs'[o].state_ptr] = heap[objs[o].state_ptr]
       /\ digest(heap', objs'[last'.self]).ret = digest(heap, objs[last'.self]).ret]_vars

\* A copy() handed out by an object whose cursor is on the last byte of its block.
C17_Witness ==
  /\ last.op = "copy"
  /\ last.exc = ""
  /\ last.made # last.self
  /\ Len(msg[last.self]) = 135
  /\ StateOf(last.self).cursor = 135

(***************************************************************************)
(* C18: h.new(data) returns a fresh object that inherits nothing from h:   *)
(* whatever h has absorbed, it ends as the new(data) of the module ends,   *)
(* the object it returns has a state of its own which is the state, and    *)
(* gives the digest, of the object new(data) returns, and the call leaves  *)
(* the state and cursor of h, and of every object there was, unchanged.    *)
(***************************************************************************)
\* The object o is as the object that the constructor call r returned.
AsReturnedBy(o, r) ==
  /\ StateOf(o) = r.heap[r.ret.state_ptr]
  /\ digest(heap, objs[o]).ret = digest(r.heap, r.ret).ret

C18_MethodNewIsFresh ==
  /\ []((last.op = "method_new" /\ last.exc # "ValueError") =>
          /\ last.exc = new(<<>>, last.arg, FALSE).exc
          /\ last.exc = "" =>
               /\ last.made \in Live \ {last.self}
               /\ objs[last.made].state_ptr # objs[last.self].state_ptr
               /\ AsReturnedBy(last.made, new(<<>>, last.arg, FALSE)))
  /\ [][last'.op = "method_new" =>
          \A o \in Live :
            /\ objs'[o] = objs[o]
            /\ msg'[o] = msg[o]
            /\ heap'[objs'[o].state_ptr] = heap[objs[o].state_ptr]]_vars

\* h.new(data) with 135 bytes of data, on an object h inside its second block.
C18_Witness ==
  /\ last.op = "method_new"
  /\ last.exc = ""
  /\ last.arg = PyBytes(Chunk(0, 135))
  /\ Len(msg[last.self]) = 137
  /\ StateOf(last.made).cursor = 135
  /\ StateOf(last.self).cursor = 1
====
